---- MODULE Spec2Model ----
(***************************************************************************)
(* Model of app.py of simple-endpoint-monitor-app-api: one call of the     *)
(* /check-endpoints handler (check_endpoints), the worker pool it creates  *)
(* and the probe it runs per URL (check_endpoint).                         *)
(*                                                                         *)
(* Representation:                                                         *)
(*   - a string that the code inspects character by character (a line of   *)
(*     the URL file, a URL) is a sequence of one-character strings;        *)
(*   - Python's None is the number None (-1), which is no status code and  *)
(*     no duration;                                                        *)
(*   - durations measured by time.time() are integers in milliseconds,     *)
(*     the rounded "time" field of a result is in hundredths of a second.  *)
(***************************************************************************)
EXTENDS Integers, Sequences, FiniteSets, TLC

\* ---------------------------------------------------------------- bounds
\* Longest URL file of the model, in lines.
MaxLines == 3

\* max_workers of the pool: int(os.getenv("MAX_WORKERS", 10)), configured
\* below the number of URLs so that units have to queue.
MAX_WORKERS == 2

\* ------------------------------------------------------------- constants
\* int(os.getenv("TIMEOUT", 30)), seconds.
TIMEOUT == 30

None == -1

\* ------------------------------------------------------- the URL file
Whitespace == {" ", "\t", "\n"}

RECURSIVE lstrip(_)
lstrip(s) ==
    IF s /= <<>> /\ Head(s) \in Whitespace THEN lstrip(Tail(s)) ELSE s

RECURSIVE rstrip(_)
rstrip(s) ==
    IF s /= <<>> /\ s[Len(s)] \in Whitespace
    THEN rstrip(SubSeq(s, 1, Len(s) - 1))
    ELSE s

\* str.strip(): leading and trailing whitespace removed, the inside kept.
strip(s) == rstrip(lstrip(s))

\* str.startswith("#")
startswith_hash(s) == s /= <<>> /\ Head(s) = "#"

\* Variant of keep_line: the emptiness test is missing.
keep_line_noblank(line) == ~startswith_hash(strip(line))

\* Variant of keep_line: the "#" test looks at the line as read.
keep_line_raw(line) == strip(line) /= <<>> /\ ~startswith_hash(line)

\* The condition of the list comprehension of check_endpoints:
\* line.strip() and not line.strip().startswith("#")
keep_line(line) == strip(line) /= <<>> /\ ~startswith_hash(strip(line))

\* urls = [line.strip() for line in f if <keep_line>]
RECURSIVE read_urls(_)
read_urls(ls) ==
    IF ls = <<>> THEN <<>>
    ELSE IF keep_line(Head(ls))
         THEN <<strip(Head(ls))>> \o read_urls(Tail(ls))
         ELSE read_urls(Tail(ls))

\* Lines a file of the model is made of: a comment (indented), a padded
\* URL and a bare URL; every line ends with its newline.
LineSamples ==
    { <<" ", "#", "a", "\n">>,
      <<" ", "a", " ", "\n">>,
      <<"b", "\n">> }

\* More lines, for the short files of the model: an empty line, a line
\* of whitespace, a URL with a "#" inside, a URL with a space inside, and
\* a last line without newline.
RichLineSamples ==
    LineSamples \cup
    { <<"\n">>,
      <<" ", "\t", "\n">>,
      <<"a", "#", "\n">>,
      <<"a", " ", "b", "\n">>,
      <<"b">> }

RECURSIVE SeqsUpTo(_, _)
SeqsUpTo(S, n) ==
    IF n = 0 THEN {<<>>}
    ELSE LET shorter == SeqsUpTo(S, n - 1)
         IN  shorter \cup {Append(s, e) : s \in shorter, e \in S}

FileContents == SeqsUpTo(LineSamples, MaxLines)

\* Only the last line of a file can lack its newline.
WellFormedFile(fl) ==
    \A k \in 1..(Len(fl) - 1) : fl[k][Len(fl[k])] = "\n"

\* --------------------------------------------------- requests.get outcomes
\* Exception classes requests.get can end with.  ConnectTimeout derives
\* from both ConnectionError and Timeout; all of the first two sets derive
\* from RequestException.  UnicodeError stands for an exception that is
\* not a RequestException.
TimeoutExceptions == {"ConnectTimeout", "ReadTimeout"}
OtherRequestExceptions == {"ConnectionError", "MissingSchema"}
UnexpectedExceptions == {"UnicodeError"}

isinstance_Timeout(e) == e \in TimeoutExceptions
isinstance_RequestException(e) ==
    e \in TimeoutExceptions \cup OtherRequestExceptions

StatusSamples == {200, 503}

\* time.time() - start when the response arrives, in milliseconds: fast,
\* and around the timeout (a response may arrive after the nominal budget,
\* as requests applies the timeout to each socket operation).
ElapsedSamples ==
    {120, TIMEOUT * 1000 + 4, TIMEOUT * 1000 + 5, TIMEOUT * 1000 + 10}

\* round(x, 2): the nearest hundredth.  A value halfway between two
\* hundredths goes to either side: which one depends on the binary float
\* nearest to x, which the millisecond grid does not determine; roundUp is
\* that side.
round2(ms, roundUp) ==
    IF ms % 10 = 5
    THEN (IF roundUp THEN ms \div 10 + 1 ELSE ms \div 10)
    ELSE (ms + 5) \div 10

\* How one requests.get(url, timeout=timeout) ends, with the clock reading
\* taken right after it.
GetOutcomes ==
    {[kind |-> "response", status_code |-> s, elapsed_ms |-> ms,
      roundUp |-> r, exc |-> ""] :
        s \in StatusSamples,
        ms \in ElapsedSamples,
        r \in BOOLEAN}
    \cup
    {[kind |-> "raise", status_code |-> None, elapsed_ms |-> None,
      roundUp |-> FALSE, exc |-> e] :
        e \in TimeoutExceptions \cup OtherRequestExceptions
              \cup UnexpectedExceptions}

\* One outcome of each family that the handler treats differently: a
\* response, a request failure, an exception that is no RequestException.
FamilyOutcomes ==
    {[kind |-> "response", status_code |-> 200, elapsed_ms |-> 120,
      roundUp |-> FALSE, exc |-> ""]}
    \cup
    {[kind |-> "raise", status_code |-> None, elapsed_ms |-> None,
      roundUp |-> FALSE, exc |-> e] :
        e \in {"ConnectionError", "UnicodeError"}}

\* What a run of the model is given: the lines of the URL file and the
\* ways a GET may end.  Files of at most one line get every outcome,
\* longer files one outcome of each family; files of at most two lines
\* are made of the richer lines.
Scenarios ==
    {[lines |-> ls, net |-> GetOutcomes] :
        ls \in SeqsUpTo(RichLineSamples, 1)}
    \cup
    {[lines |-> ls, net |-> FamilyOutcomes] :
        ls \in {fl \in SeqsUpTo(RichLineSamples, 2) :
                   Len(fl) = 2 /\ WellFormedFile(fl)}}
    \cup
    {[lines |-> ls, net |-> FamilyOutcomes] :
        ls \in {fl \in FileContents : Len(fl) > 2}}

\* ----------------------------------------------------------- check_endpoint
NoRecord == [url |-> <<>>, status |-> None, time |-> None, result |-> ""]

Return(rec) == [kind |-> "return", value |-> rec, exc |-> ""]
Raise(e) == [kind |-> "raise", value |-> NoRecord, exc |-> e]

\* Variant of classify: a response at exactly the timeout is late.
classify_strict(elapsed, timeout) ==
    IF elapsed < timeout * 100 THEN "UP" ELSE "TIMEOUT"

\* Variant of classify: a late response gets a label of its own.
classify_slow(elapsed, timeout) ==
    IF elapsed <= timeout * 100 THEN "UP" ELSE "SLOW"

\* "UP" if elapsed <= timeout else "TIMEOUT", elapsed in hundredths.
classify(elapsed, timeout) ==
    IF elapsed <= timeout * 100 THEN "UP" ELSE "TIMEOUT"

\* Variant of handle_exception: the RequestException clause comes first.
handle_exception_swapped(url, e) ==
    IF isinstance_RequestException(e)
    THEN Return([url |-> url, status |-> None, time |-> None,
                 result |-> "DOWN (" \o e \o ")"])
    ELSE IF isinstance_Timeout(e)
    THEN Return([url |-> url, status |-> None, time |-> None,
                 result |-> "TIMEOUT"])
    ELSE Raise(e)

\* Variant of handle_exception: a timeout reports the budget as its time.
handle_exception_elapsed(url, e) ==
    IF isinstance_Timeout(e)
    THEN Return([url |-> url, status |-> None, time |-> TIMEOUT * 100,
                 result |-> "TIMEOUT"])
    ELSE IF isinstance_RequestException(e)
    THEN Return([url |-> url, status |-> None, time |-> None,
                 result |-> "DOWN (" \o e \o ")"])
    ELSE Raise(e)

\* The except clauses of check_endpoint, in their order.
handle_exception(url, e) ==
    IF isinstance_Timeout(e)
    THEN Return([url |-> url, status |-> None, time |-> None,
                 result |-> "TIMEOUT"])
    ELSE IF isinstance_RequestException(e)
    THEN Return([url |-> url, status |-> None, time |-> None,
                 result |-> "DOWN (" \o e \o ")"])
    ELSE Raise(e)

\* check_endpoint(url, timeout), given how its GET ends.
check_endpoint(url, timeout, get) ==
    IF get.kind = "response"
    THEN LET elapsed == round2(get.elapsed_ms, get.roundUp)
         IN  Return([url |-> url, status |-> get.status_code,
                     time |-> elapsed,
                     result |-> classify(elapsed, timeout)])
    ELSE handle_exception(url, get.exc)

\* ------------------------------------------------------------------ state
VARIABLES
    pc,         \* where the handler (the request's thread) is
    fileState,  \* URL_FILE on disk: "missing", "present" or "unreadable"
    lines,      \* the lines URL_FILE holds when it is present
    net,        \* the ways a GET may end in this run
    f,          \* the file object of the with statement: "none", "closed"
    urls,       \* the local urls of check_endpoints
    fut,        \* the futures of future_to_url, in submission order
    gets,       \* per unit, the number of requests.get calls issued
    got,        \* per unit, how its GET ended (NoGet while it has not)
    queue,      \* the executor's work queue (unit numbers, FIFO)
    threads,    \* worker threads the executor has started
    idleSem,    \* the executor's idle semaphore
    running,    \* units a worker is executing check_endpoint for
    completed,  \* units in the order they finished
    early,      \* as_completed: the futures found finished on entry
    waiter,     \* as_completed: futures finished since entry, not yet yielded
    yielded,    \* units whose future the for loop has taken, in that order
    results,    \* the local results of check_endpoints
    exc,        \* the exception propagating out of the handler, "" if none
    retval,     \* the list the handler returned
    call2       \* a second call of the handler served at the same time:
                \* its own pc, f, urls, futures, executor, results, ...

vars == <<pc, fileState, lines, net, f, urls, fut, gets, got, queue, threads, idleSem,
          running, completed, early, waiter, yielded, results, exc, retval,
          call2>>

poolVars == <<queue, threads, idleSem, running, completed>>
loopVars == <<early, waiter, yielded, results>>

unitVars == <<fut, gets, got>>

\* The state of the first call, and what both calls read.
call1Vars == <<pc, f, urls, unitVars, poolVars, loopVars, exc, retval>>
sharedVars == <<fileState, lines, net>>

Units == 1..Len(fut)

NoGet == [kind |-> "none", status_code |-> None, elapsed_ms |-> None,
          roundUp |-> FALSE, exc |-> ""]

NoOutcome == [kind |-> "none", value |-> NoRecord, exc |-> ""]

\* The record returned when URL_FILE does not exist.
SyntheticError ==
    [url |-> <<"N", "/", "A">>, status |-> None, time |-> None,
     result |-> "ERROR: URL file not found"]

\* No second call.
Off2 ==
    [pc |-> "off", lines |-> <<>>, f |-> "none", urls |-> <<>>, fut |-> <<>>,
     queue |-> <<>>, threads |-> 0, idleSem |-> 0, running |-> {},
     early |-> {}, waiter |-> <<>>, yielded |-> <<>>, results |-> <<>>,
     exc |-> "", retval |-> <<>>]

Init ==
    /\ pc = "exists"
    /\ fileState \in {"missing", "present", "unreadable"}
    /\ \E sc \in Scenarios : lines = sc.lines /\ net = sc.net
    /\ f = "none"
    /\ urls = <<>>
    /\ fut = <<>>
    /\ gets = <<>>
    /\ got = <<>>
    /\ queue = <<>>
    /\ threads = 0
    /\ idleSem = 0
    /\ running = {}
    /\ completed = <<>>
    /\ early = {}
    /\ waiter = <<>>
    /\ yielded = <<>>
    /\ results = <<>>
    /\ exc = ""
    /\ retval = <<>>
    /\ call2 = Off2

\* ------------------------------------------------------------ environment
\* Another process creates, removes or locks URL_FILE.  The handler looks
\* at the file only up to its open(), so later changes are not modelled.
FileChange ==
    /\ pc \in {"exists", "open"} \/ call2.pc \in {"exists", "open"}
    /\ fileState' \in {"missing", "present", "unreadable"} \ {fileState}
    /\ UNCHANGED <<pc, lines, net, f, urls, unitVars, poolVars, loopVars, exc, retval,
                   call2>>

\* ---------------------------------------------------------------- handler
\* Variant of path_exists: the check is skipped.
path_exists_always(st) == TRUE

\* os.path.exists: true of anything that is there, readable or not.
path_exists(st) == st /= "missing"

\* if not os.path.exists(URL_FILE): return [synthetic record]
CheckExists ==
    /\ pc = "exists"
    /\ IF ~path_exists(fileState)
       THEN /\ pc' = "returned"
            /\ retval' = <<SyntheticError>>
       ELSE /\ pc' = "open"
            /\ UNCHANGED retval
    /\ UNCHANGED <<fileState, lines, net, f, urls, unitVars, poolVars, loopVars, exc,
                   call2>>

\* with open(URL_FILE, "r") as f: urls = [...]; results = [];
\* ThreadPoolExecutor(max_workers=MAX_WORKERS).  open() raises when the
\* file is gone or cannot be read, and nothing in the handler catches it.
OpenAndRead ==
    /\ pc = "open"
    /\ CASE fileState = "present" ->
              /\ urls' = read_urls(lines)
              /\ f' = "closed"
              /\ pc' = "submit"
              /\ UNCHANGED exc
         [] fileState = "missing" ->
              /\ pc' = "raised"
              /\ exc' = "FileNotFoundError"
              /\ UNCHANGED <<f, urls>>
         [] fileState = "unreadable" ->
              /\ pc' = "raised"
              /\ exc' = "PermissionError"
              /\ UNCHANGED <<f, urls>>
    /\ UNCHANGED <<fileState, lines, net, unitVars, poolVars, loopVars, retval,
                   call2>>

\* Variant of adjust_thread_count: no cap on the number of threads.
adjust_thread_count_unbounded(n, sem, max) ==
    IF sem > 0 THEN [threads |-> n, idleSem |-> sem - 1]
    ELSE [threads |-> n + 1, idleSem |-> sem]

\* ThreadPoolExecutor._adjust_thread_count: reuse an idle worker if the
\* semaphore says there is one, else start a thread while below max_workers.
adjust_thread_count(n, sem, max) ==
    IF sem > 0 THEN [threads |-> n, idleSem |-> sem - 1]
    ELSE IF n < max THEN [threads |-> n + 1, idleSem |-> sem]
    ELSE [threads |-> n, idleSem |-> sem]

\* One iteration of the dict comprehension:
\* executor.submit(check_endpoint, url, TIMEOUT) for the next url.
Submit ==
    /\ pc = "submit"
    /\ Len(fut) < Len(urls)
    /\ LET i == Len(fut) + 1
           adj == adjust_thread_count(threads, idleSem, MAX_WORKERS)
       IN  /\ fut' = Append(fut, [state |-> "PENDING", outcome |-> NoOutcome])
           /\ gets' = Append(gets, 0)
           /\ got' = Append(got, NoGet)
           /\ queue' = Append(queue, i)
           /\ threads' = adj.threads
           /\ idleSem' = adj.idleSem
    /\ UNCHANGED <<pc, fileState, lines, net, f, urls, running, completed,
                   loopVars, exc, retval,
                   call2>>

\* as_completed(future_to_url), first next(): the futures already finished
\* are set aside (yielded first, in the iteration order of a set), a
\* waiter is installed on the others.
AsCompleted ==
    /\ pc = "submit"
    /\ Len(fut) = Len(urls)
    /\ early' = {i \in Units : fut[i].state = "FINISHED"}
    /\ waiter' = <<>>
    /\ pc' = "collect"
    /\ UNCHANGED <<fileState, lines, net, f, urls, unitVars, poolVars, yielded,
                   results, exc, retval,
                   call2>>

\* Variant of list_append: a result for a URL already present is dropped.
list_append_unique(l, x) ==
    IF \E k \in 1..Len(l) : l[k].url = x.url THEN l ELSE Append(l, x)

\* list.append
list_append(l, x) == Append(l, x)

\* The units whose future as_completed has yielded.
Taken == {yielded[k] : k \in 1..Len(yielded)}

\* The body of the for loop for the future of unit i:
\* results.append(future.result()).  future.result() re-raises what
\* check_endpoint raised; the exception leaves the with block.
LoopBody(i) ==
    /\ yielded' = Append(yielded, i)
    /\ IF fut[i].outcome.kind = "raise"
       THEN /\ exc' = fut[i].outcome.exc
            /\ pc' = "shutdown"
            /\ UNCHANGED results
       ELSE /\ results' = list_append(results, fut[i].outcome.value)
            /\ UNCHANGED <<pc, exc>>

\* as_completed yields a future that was finished on entry.
CollectEarly(i) ==
    /\ pc = "collect"
    /\ i \in early \ Taken
    /\ LoopBody(i)
    /\ UNCHANGED <<fileState, lines, net, f, urls, unitVars, poolVars, early,
                   waiter, retval,
                   call2>>

\* Variant of pop_notified: the future notified last is yielded first.
pop_notified_lifo(w) ==
    [unit |-> w[Len(w)], rest |-> SubSeq(w, 1, Len(w) - 1)]

\* as_completed takes the futures the waiter was notified of in the order
\* of the notifications.
pop_notified(w) == [unit |-> Head(w), rest |-> Tail(w)]

\* as_completed yields the next future the waiter was notified of.
CollectLate ==
    /\ pc = "collect"
    /\ early \subseteq Taken
    /\ waiter /= <<>>
    /\ waiter' = pop_notified(waiter).rest
    /\ LoopBody(pop_notified(waiter).unit)
    /\ UNCHANGED <<fileState, lines, net, f, urls, unitVars, poolVars, early, retval,
                   call2>>

\* as_completed is exhausted: the for loop ends and the with block is left.
EndLoop ==
    /\ pc = "collect"
    /\ Taken = Units
    /\ pc' = "shutdown"
    /\ UNCHANGED <<fileState, lines, net, f, urls, unitVars, poolVars, loopVars,
                   exc, retval,
                   call2>>

\* Variant of joined: shutdown does not wait.
joined_nowait(q, r) == TRUE

\* The worker threads can be joined: nothing is queued, nothing runs.
joined(q, r) == q = <<>> /\ r = {}

\* ThreadPoolExecutor.__exit__: shutdown(wait=True) joins the workers, which
\* first drain the work queue; then `return results`, or the exception
\* goes on to the caller.
Shutdown ==
    /\ pc = "shutdown"
    /\ joined(queue, running)
    /\ IF exc = ""
       THEN /\ pc' = "returned"
            /\ retval' = results
       ELSE /\ pc' = "raised"
            /\ UNCHANGED retval
    /\ UNCHANGED <<fileState, lines, net, f, urls, unitVars, poolVars, loopVars, exc,
                   call2>>

\* ---------------------------------------------------------------- workers
\* A worker thread takes the next work item and calls check_endpoint,
\* which issues its GET.
Start ==
    /\ queue /= <<>>
    /\ Cardinality(running) < threads
    /\ LET i == Head(queue)
       IN  /\ queue' = Tail(queue)
           /\ running' = running \cup {i}
           /\ fut' = [fut EXCEPT ![i].state = "RUNNING"]
           /\ gets' = [gets EXCEPT ![i] = @ + 1]
    /\ UNCHANGED <<pc, fileState, lines, net, f, urls, got, threads, idleSem,
                   completed, loopVars, exc, retval,
                   call2>>

\* Variant of Finish: check_endpoint sees the URL submitted last.
Finish_latebound(i, get) ==
    /\ i \in running
    /\ running' = running \ {i}
    /\ fut' = [fut EXCEPT ![i] =
                  [state |-> "FINISHED",
                   outcome |-> check_endpoint(urls[Len(fut)], TIMEOUT, get)]]
    /\ completed' = Append(completed, i)
    /\ idleSem' = idleSem + 1
    /\ waiter' = IF pc = "collect" THEN Append(waiter, i) ELSE waiter
    /\ got' = [got EXCEPT ![i] = get]
    /\ UNCHANGED <<pc, fileState, lines, net, f, urls, gets, queue, threads,
                   early, yielded, results, exc, retval,
                   call2>>

\* Variant of Finish: a GET that fails is tried once more.
Finish_retry(i, get) ==
    /\ i \in running
    /\ running' = running \ {i}
    /\ idleSem' = idleSem + 1
    /\ IF get.kind = "raise" /\ gets[i] < 2
       THEN /\ fut' = [fut EXCEPT ![i].state = "PENDING"]
            /\ queue' = Append(queue, i)
            /\ UNCHANGED <<completed, waiter, got>>
       ELSE /\ fut' = [fut EXCEPT ![i] =
                          [state |-> "FINISHED",
                           outcome |-> check_endpoint(urls[i], TIMEOUT, get)]]
            /\ completed' = Append(completed, i)
            /\ waiter' = IF pc = "collect" THEN Append(waiter, i) ELSE waiter
            /\ got' = [got EXCEPT ![i] = get]
            /\ UNCHANGED queue
    /\ UNCHANGED <<pc, fileState, lines, net, f, urls, gets, threads,
                   early, yielded, results, exc, retval,
                   call2>>

\* Variant of Finish: the worker appends its record to results itself.
Finish_append(i, get) ==
    /\ i \in running
    /\ running' = running \ {i}
    /\ fut' = [fut EXCEPT ![i] =
                  [state |-> "FINISHED",
                   outcome |-> check_endpoint(urls[i], TIMEOUT, get)]]
    /\ completed' = Append(completed, i)
    /\ idleSem' = idleSem + 1
    /\ waiter' = IF pc = "collect" THEN Append(waiter, i) ELSE waiter
    /\ got' = [got EXCEPT ![i] = get]
    /\ results' = Append(results, check_endpoint(urls[i], TIMEOUT, get).value)
    /\ UNCHANGED <<pc, fileState, lines, net, f, urls, gets, queue, threads,
                   early, yielded, exc, retval,
                   call2>>

\* The GET of unit i ends, check_endpoint returns or raises, the work item
\* stores that in the future and notifies the waiter; the worker is idle.
Finish(i, get) ==
    /\ i \in running
    /\ running' = running \ {i}
    /\ fut' = [fut EXCEPT ![i] =
                  [state |-> "FINISHED",
                   outcome |-> check_endpoint(urls[i], TIMEOUT, get)]]
    /\ completed' = Append(completed, i)
    /\ idleSem' = idleSem + 1
    /\ waiter' = IF pc = "collect" THEN Append(waiter, i) ELSE waiter
    /\ got' = [got EXCEPT ![i] = get]
    /\ UNCHANGED <<pc, fileState, lines, net, f, urls, gets, queue, threads,
                   early, yielded, results, exc, retval,
                   call2>>

Next ==
    \/ FileChange
    \/ CheckExists
    \/ OpenAndRead
    \/ Submit
    \/ AsCompleted
    \/ \E i \in Units : CollectEarly(i)
    \/ CollectLate
    \/ EndLoop
    \/ Shutdown
    \/ Start
    \/ \E i \in Units, get \in net : Finish(i, get)

Spec == Init /\ [][Next]_vars

\* The steps of the thread that serves the request.
Handler ==
    \/ CheckExists
    \/ OpenAndRead
    \/ Submit
    \/ AsCompleted
    \/ \E i \in Units : CollectEarly(i)
    \/ CollectLate
    \/ EndLoop
    \/ Shutdown

\* The same behaviours under fair scheduling: the handler thread runs when
\* it can, a worker takes a queued unit when one is free, and every GET
\* ends (requests.get is bounded by the timeout).  Nothing is assumed of
\* the process that changes the file.
SpecFair ==
    /\ Init
    /\ [][Next]_vars
    /\ WF_vars(Handler)
    /\ WF_vars(Start)
    /\ \A i \in 1..MaxLines : WF_vars(\E get \in net : Finish(i, get))

\* ------------------------------------------------------- a second call
\* The same handler serving a second request at the same time.  Its
\* locals (f, urls, results, the executor and its futures) are its own,
\* held in call2; it shares URL_FILE, TIMEOUT and MAX_WORKERS with the first.
\* call2.lines is what URL_FILE holds when the second call reads it (the
\* file may have been rewritten since the first call read it).
Units2 == 1..Len(call2.fut)
Taken2 == {call2.yielded[k] : k \in 1..Len(call2.yielded)}

CheckExists2 ==
    /\ call2.pc = "exists"
    /\ call2' = IF ~path_exists(fileState)
                THEN [call2 EXCEPT !.pc = "returned",
                                   !.retval = <<SyntheticError>>]
                ELSE [call2 EXCEPT !.pc = "open"]
    /\ UNCHANGED <<sharedVars, call1Vars>>

OpenAndRead2 ==
    /\ call2.pc = "open"
    /\ call2' =
          CASE fileState = "present" ->
                 [call2 EXCEPT !.urls = read_urls(call2.lines),
                               !.f = "closed", !.pc = "submit"]
            [] fileState = "missing" ->
                 [call2 EXCEPT !.pc = "raised", !.exc = "FileNotFoundError"]
            [] fileState = "unreadable" ->
                 [call2 EXCEPT !.pc = "raised", !.exc = "PermissionError"]
    /\ UNCHANGED <<sharedVars, call1Vars>>

Submit2 ==
    /\ call2.pc = "submit"
    /\ Len(call2.fut) < Len(call2.urls)
    /\ LET i == Len(call2.fut) + 1
           adj == adjust_thread_count(call2.threads, call2.idleSem,
                                      MAX_WORKERS)
       IN  call2' =
             [call2 EXCEPT
                !.fut = Append(@, [state |-> "PENDING", outcome |-> NoOutcome]),
                !.queue = Append(@, i),
                !.threads = adj.threads,
                !.idleSem = adj.idleSem]
    /\ UNCHANGED <<sharedVars, call1Vars>>

AsCompleted2 ==
    /\ call2.pc = "submit"
    /\ Len(call2.fut) = Len(call2.urls)
    /\ call2' =
          [call2 EXCEPT
             !.early = {i \in Units2 : call2.fut[i].state = "FINISHED"},
             !.waiter = <<>>,
             !.pc = "collect"]
    /\ UNCHANGED <<sharedVars, call1Vars>>

\* results.append(future.result()) of the second call, for unit i, after
\* as_completed has left it the notifications w.
LoopBody2(i, w) ==
    IF call2.fut[i].outcome.kind = "raise"
    THEN [call2 EXCEPT !.yielded = Append(@, i),
                       !.waiter = w,
                       !.exc = call2.fut[i].outcome.exc,
                       !.pc = "shutdown"]
    ELSE [call2 EXCEPT !.yielded = Append(@, i),
                       !.waiter = w,
                       !.results =
                           list_append(@, call2.fut[i].outcome.value)]

CollectEarly2(i) ==
    /\ call2.pc = "collect"
    /\ i \in call2.early \ Taken2
    /\ call2' = LoopBody2(i, call2.waiter)
    /\ UNCHANGED <<sharedVars, call1Vars>>

CollectLate2 ==
    /\ call2.pc = "collect"
    /\ call2.early \subseteq Taken2
    /\ call2.waiter /= <<>>
    /\ call2' = LoopBody2(pop_notified(call2.waiter).unit,
                          pop_notified(call2.waiter).rest)
    /\ UNCHANGED <<sharedVars, call1Vars>>

EndLoop2 ==
    /\ call2.pc = "collect"
    /\ Taken2 = Units2
    /\ call2' = [call2 EXCEPT !.pc = "shutdown"]
    /\ UNCHANGED <<sharedVars, call1Vars>>

\* Variant of Shutdown2: results is one list shared by the calls.
Shutdown2_shared ==
    /\ call2.pc = "shutdown"
    /\ joined(call2.queue, call2.running)
    /\ call2' = IF call2.exc = ""
                THEN [call2 EXCEPT !.pc = "returned",
                                   !.retval = results \o call2.results]
                ELSE [call2 EXCEPT !.pc = "raised"]
    /\ UNCHANGED <<sharedVars, call1Vars>>

Shutdown2 ==
    /\ call2.pc = "shutdown"
    /\ joined(call2.queue, call2.running)
    /\ call2' = IF call2.exc = ""
                THEN [call2 EXCEPT !.pc = "returned",
                                   !.retval = call2.results]
                ELSE [call2 EXCEPT !.pc = "raised"]
    /\ UNCHANGED <<sharedVars, call1Vars>>

Start2 ==
    /\ call2.queue /= <<>>
    /\ Cardinality(call2.running) < call2.threads
    /\ LET i == Head(call2.queue)
       IN  call2' = [call2 EXCEPT !.queue = Tail(@),
                                  !.running = @ \cup {i},
                                  !.fut[i].state = "RUNNING"]
    /\ UNCHANGED <<sharedVars, call1Vars>>

Finish2(i, get) ==
    /\ i \in call2.running
    /\ call2' =
          [call2 EXCEPT
             !.running = @ \ {i},
             !.fut[i] = [state |-> "FINISHED",
                         outcome |-> check_endpoint(call2.urls[i], TIMEOUT,
                                                    get)],
             !.idleSem = @ + 1,
             !.waiter = IF call2.pc = "collect" THEN Append(@, i) ELSE @]
    /\ UNCHANGED <<sharedVars, call1Vars>>

Next2 ==
    \/ CheckExists2
    \/ OpenAndRead2
    \/ Submit2
    \/ AsCompleted2
    \/ \E i \in Units2 : CollectEarly2(i)
    \/ CollectLate2
    \/ EndLoop2
    \/ Shutdown2
    \/ Start2
    \/ \E i \in Units2, get \in net : Finish2(i, get)

\* Files of two URLs, for the runs with two calls.
OverlapFiles ==
    { << <<" ", "a", " ", "\n">>, <<"b", "\n">> >>,
      << <<"b", "\n">>, <<"b", "\n">> >> }

\* Two requests arrive together; the file holds two URLs, the same or
\* others for the second call.
InitOverlap ==
    /\ pc = "exists"
    /\ fileState = "present"
    /\ lines = << <<" ", "a", " ", "\n">>, <<"b", "\n">> >>
    /\ net = FamilyOutcomes
    /\ f = "none"
    /\ urls = <<>>
    /\ fut = <<>>
    /\ gets = <<>>
    /\ got = <<>>
    /\ queue = <<>>
    /\ threads = 0
    /\ idleSem = 0
    /\ running = {}
    /\ completed = <<>>
    /\ early = {}
    /\ waiter = <<>>
    /\ yielded = <<>>
    /\ results = <<>>
    /\ exc = ""
    /\ retval = <<>>
    /\ \E ls \in OverlapFiles : call2 = [Off2 EXCEPT !.pc = "exists",
                                                     !.lines = ls]

NextOverlap == Next \/ Next2

SpecOverlap == InitOverlap /\ [][NextOverlap]_vars

\* ================================================================ claims
Count(seq, x) == Cardinality({k \in 1..Len(seq) : seq[k] = x})
UrlFields(rs) == [k \in 1..Len(rs) |-> rs[k].url]
Elements(seq) == {seq[k] : k \in 1..Len(seq)}

\* The handler has ended (return or exception).
Ended == pc \in {"returned", "raised"}
\* ... after having read the URL list from an available source.
EndedAfterRead == Ended /\ f = "closed"

SyntheticLiteral ==
    [url |-> <<"N", "/", "A">>, status |-> None, time |-> None,
     result |-> "ERROR: URL file not found"]

Finished(i) == fut[i].state = "FINISHED"
Rec(i) == fut[i].outcome.value

\* C1: when check_endpoints returns the results of a URL list it read, the
\* url fields of the returned list are the input URLs as a multiset: as
\* many results as URLs, and every URL as often among the results as
\* among the inputs.
C1_OneResultPerUrl ==
    (pc = "returned" /\ f = "closed") =>
        /\ Len(retval) = Len(urls)
        /\ \A u \in Elements(urls) \cup Elements(UrlFields(retval)) :
              Count(UrlFields(retval), u) = Count(urls, u)

\* C1 witness: a list of three URLs with a duplicate was checked and
\* returned in an order other than the submission order.
C1_Witness ==
    /\ pc = "returned"
    /\ Len(urls) = 3
    /\ urls[1] = urls[3]
    /\ urls[1] /= urls[2]
    /\ Len(retval) = 3
    /\ retval[1].url = urls[2]

\* C2 (as claimed): a unit that ends with an exception outside the
\* RequestException family does not abort the batch: the handler returns,
\* with a DOWN record for that URL and, for every other unit, the record
\* its check produced.
C2_BatchIsolation ==
    EndedAfterRead =>
        /\ pc = "returned"
        /\ Len(retval) = Len(urls)
        /\ \A i \in Units :
              \E k \in 1..Len(retval) :
                 /\ retval[k].url = urls[i]
                 /\ IF got[i].exc \in UnexpectedExceptions
                    THEN retval[k].result = "DOWN (" \o got[i].exc \o ")"
                    ELSE retval[k] = Rec(i)

\* C3 (as claimed): check_endpoint never raises: whatever way the GET
\* ends, the future holds a returned record, and an ending that is neither
\* a response nor a timeout failure gives a DOWN record.
C3_NeverThrows ==
    \A i \in Units :
        Finished(i) =>
            /\ fut[i].outcome.kind = "return"
            /\ (got[i].kind = "raise" /\ ~isinstance_Timeout(got[i].exc))
                  => Rec(i).result = "DOWN (" \o got[i].exc \o ")"

\* C4: at most MAX_WORKERS invocations of check_endpoint are in flight.
C4_ConcurrencyBound == Cardinality(running) <= MAX_WORKERS

\* C4 witness: every worker is busy while a unit waits in the queue.
C4_Witness ==
    /\ Cardinality(running) = MAX_WORKERS
    /\ queue /= <<>>

\* C5: when the handler has left the with block of the executor, by return
\* or by exception, every URL had its unit submitted, every unit has
\* finished, nothing is queued and no worker runs a check.
C5_JoinBeforeReturn ==
    EndedAfterRead =>
        /\ Len(fut) = Len(urls)
        /\ \A i \in Units : Finished(i)
        /\ queue = <<>>
        /\ running = {}

\* C5 witness: the handler ended with the exception of one unit, the loop
\* never took the future of another unit, and that unit has finished too.
C5_Witness ==
    /\ pc = "raised"
    /\ f = "closed"
    /\ \E i \in Units : i \notin Taken /\ Finished(i)
    /\ \E i \in Units : i \in Taken /\ fut[i].outcome.kind = "raise"

\* C6: when os.path.exists reports URL_FILE missing the handler returns at
\* once the list of the one synthetic record; no unit is ever submitted,
\* no thread started, no GET issued.
C6_MissingSource ==
    /\ [][(pc = "exists" /\ fileState = "missing" /\ pc' /= pc) =>
             (pc' = "returned" /\ retval' = <<SyntheticLiteral>>)]_vars
    /\ []((pc = "returned" /\ f = "none") =>
             /\ retval = <<SyntheticLiteral>>
             /\ fut = <<>>
             /\ gets = <<>>
             /\ threads = 0
             /\ running = {})

\* C6 witness: the handler returned the synthetic record.
C6_Witness ==
    /\ pc = "returned"
    /\ f = "none"
    /\ Len(retval) = 1
    /\ retval[1].url = <<"N", "/", "A">>
    /\ fileState = "missing"

\* C7 (as claimed): whenever the handler ends without having read the URL
\* list, it has returned the synthetic record and raised nothing.
C7_SourceUnavailable ==
    (Ended /\ f = "none") =>
        (pc = "returned" /\ retval = <<SyntheticLiteral>>)

PresenceAgrees(rec) == (rec.status /= None) <=> (rec.time /= None)

\* C8: in every record check_endpoint returned, and in every record of the
\* results and of the returned list (the synthetic one included), status is
\* present iff time is; in a record of check_endpoint both are present
\* exactly when the GET ended with a response.
C8_StatusIffTime ==
    /\ \A i \in Units :
          (Finished(i) /\ fut[i].outcome.kind = "return") =>
              /\ PresenceAgrees(Rec(i))
              /\ (Rec(i).status /= None) <=> (got[i].kind = "response")
    /\ \A k \in 1..Len(results) : PresenceAgrees(results[k])
    /\ \A k \in 1..Len(retval) : PresenceAgrees(retval[k])

\* C8 witness: a returned list with a record of a response and a record
\* of a failure.
C8_Witness ==
    /\ pc = "returned"
    /\ \E k, m \in 1..Len(retval) :
          /\ retval[k].status /= None /\ retval[k].time /= None
          /\ retval[m].status = None /\ retval[m].time = None

\* C9: when the GET ended with a response, check_endpoint returns a record
\* with the received status code and the elapsed time rounded to the
\* nearest hundredth, and the outcome is UP if that time <= TIMEOUT and
\* TIMEOUT if it is greater, whatever the status code.
C9_SoftTimeout ==
    \A i \in Units :
        (Finished(i) /\ got[i].kind = "response") =>
            /\ fut[i].outcome.kind = "return"
            /\ Rec(i).status = got[i].status_code
            /\ Rec(i).time /= None
            /\ 10 * Rec(i).time - got[i].elapsed_ms \in -5..5
            /\ Rec(i).time <= TIMEOUT * 100 => Rec(i).result = "UP"
            /\ Rec(i).time > TIMEOUT * 100 => Rec(i).result = "TIMEOUT"

\* C9 witness: a 200 response at TIMEOUT + 0.01 s is a TIMEOUT with status
\* and time present.
C9_Witness ==
    \E i \in Units :
        /\ Finished(i)
        /\ got[i].kind = "response"
        /\ Rec(i).status = 200
        /\ Rec(i).time = TIMEOUT * 100 + 1
        /\ Rec(i).result = "TIMEOUT"

\* C10: a GET that fails with a timeout failure (ConnectTimeout, which is
\* also a ConnectionError, included) gives the outcome TIMEOUT; any other
\* request failure gives "DOWN (<its class name>)"; status and time are
\* absent in both.
C10_FailureClassification ==
    \A i \in Units :
        (Finished(i) /\ got[i].kind = "raise"
                     /\ got[i].exc \in TimeoutExceptions
                                       \cup OtherRequestExceptions) =>
            /\ fut[i].outcome.kind = "return"
            /\ Rec(i).url = urls[i]
            /\ Rec(i).status = None
            /\ Rec(i).time = None
            /\ Rec(i).result =
                  IF got[i].exc \in {"ConnectTimeout", "ReadTimeout"}
                  THEN "TIMEOUT"
                  ELSE "DOWN (" \o got[i].exc \o ")"

\* C10 witness: a connect timeout was classified TIMEOUT.
C10_Witness ==
    \E i \in Units :
        /\ Finished(i)
        /\ got[i].exc = "ConnectTimeout"
        /\ Rec(i).result = "TIMEOUT"

\* Outcomes a check can have: UP, TIMEOUT, DOWN (<exception class>).
CheckOutcomes ==
    {"UP", "TIMEOUT"} \cup
    {"DOWN (" \o e \o ")" :
        e \in TimeoutExceptions \cup OtherRequestExceptions
              \cup UnexpectedExceptions}

\* C11: every record of a returned list has an outcome UP, TIMEOUT or
\* DOWN (<category>), except the synthetic ERROR record; that one is
\* returned only when URL_FILE was found missing, and then alone.
C11_OutcomeDomain ==
    pc = "returned" =>
        \A k \in 1..Len(retval) :
            IF retval[k].result = "ERROR: URL file not found"
            THEN Len(retval) = 1 /\ f = "none" /\ fileState = "missing"
            ELSE retval[k].result \in CheckOutcomes /\ f = "closed"

\* C11 witness: a returned list of check results with an UP and a DOWN.
C11_Witness ==
    /\ pc = "returned"
    /\ f = "closed"
    /\ \E k, m \in 1..Len(retval) :
          /\ retval[k].result = "UP"
          /\ retval[m].result = "DOWN (ConnectionError)"

\* A line of whitespace only; a line whose first other character is "#".
Blank(l) == \A k \in 1..Len(l) : l[k] \in Whitespace
Comment(l) ==
    \E k \in 1..Len(l) :
        l[k] = "#" /\ \A j \in 1..(k - 1) : l[j] \in Whitespace

\* C12: when the file that was read holds only blank and comment lines (or
\* nothing), no unit is submitted, no thread started, no GET issued, the
\* handler raises nothing and what it returns is the empty list.
C12_EmptyList ==
    (f = "closed" /\ \A k \in 1..Len(lines) :
                        Blank(lines[k]) \/ Comment(lines[k])) =>
        /\ urls = <<>>
        /\ fut = <<>>
        /\ gets = <<>>
        /\ threads = 0
        /\ pc /= "raised"
        /\ exc = ""
        /\ pc = "returned" => retval = <<>>

\* C12 witness: a file of a blank line and a comment line was read and
\* the empty list returned.
C12_Witness ==
    /\ pc = "returned"
    /\ f = "closed"
    /\ Len(lines) = 2
    /\ Blank(lines[1])
    /\ Comment(lines[2])
    /\ retval = <<>>

C17_SerializedAggregation ==
    /\ [][results' /= results =>
            /\ pc = "collect"
            /\ Len(yielded') = Len(yielded) + 1
            /\ results' =
                  Append(results, fut[yielded'[Len(yielded')]].outcome.value)
            /\ fut' = fut
            /\ running' = running]_vars
    /\ []((pc = "returned" /\ f = "closed") =>
            /\ retval = results
            /\ Len(results) = Len(yielded))

\* C17 witness: the handler has appended two records while a worker is
\* still running a check.
C17_Witness ==
    /\ pc = "collect"
    /\ Len(results) = 2
    /\ running /= {}

\* The lines of the file that are neither blank nor comments.
KeptIdx ==
    {k \in 1..Len(lines) : ~Blank(lines[k]) /\ ~Comment(lines[k])}

\* The j-th of them, in file order.
NthKept(j) ==
    CHOOSE k \in KeptIdx : Cardinality({m \in KeptIdx : m <= k}) = j

\* s is l without its leading and trailing whitespace.
Stripped(l, s) ==
    \E i, j \in 1..Len(l) :
        /\ i <= j
        /\ s = SubSeq(l, i, j)
        /\ l[i] \notin Whitespace
        /\ l[j] \notin Whitespace
        /\ \A k \in 1..(i - 1) : l[k] \in Whitespace
        /\ \A k \in (j + 1)..Len(l) : l[k] \in Whitespace

\* C18: the URLs read are the lines of the file that are neither blank nor
\* (after stripping) begin with "#", in file order, each without its
\* surrounding whitespace; the units submitted are for these URLs, in that
\* order, and each record carries the URL of its unit.
C18_Filtering ==
    f = "closed" =>
        /\ Len(urls) = Cardinality(KeptIdx)
        /\ \A j \in 1..Len(urls) : Stripped(lines[NthKept(j)], urls[j])
        /\ Len(fut) <= Len(urls)
        /\ \A i \in Units :
              (Finished(i) /\ fut[i].outcome.kind = "return") =>
                  Rec(i).url = urls[i]
        /\ Ended => Len(fut) = Len(urls)

\* C18 witness: of an indented comment and a padded URL with a "#" inside
\* only the URL, stripped, was checked.
C18_Witness ==
    /\ pc = "returned"
    /\ lines = << <<" ", "#", "a", "\n">>, <<"a", "#", "\n">> >>
    /\ urls = << <<"a", "#">> >>
    /\ Len(retval) = 1
    /\ retval[1].url = <<"a", "#">>

\* C14: the outcome stored for a unit is what check_endpoint gives for the
\* URL of that unit, the timeout and the way its own GET ended, whatever
\* the other units do; once stored it never changes; no unit is dropped
\* because of another: when the handler has ended every unit has run and
\* finished; and a returned list holds the record of every unit.
C14_NoInterference ==
    /\ [](\A i \in Units :
             Finished(i) =>
                 fut[i].outcome = check_endpoint(urls[i], TIMEOUT, got[i]))
    /\ [][\A i \in Units :
             Finished(i) => (fut'[i] = fut[i] /\ got'[i] = got[i])]_vars
    /\ [](EndedAfterRead =>
             \A i \in 1..Len(urls) :
                 i \in Units /\ Finished(i) /\ got[i].kind /= "none")
    /\ []((pc = "returned" /\ f = "closed") =>
             \A i \in Units : \E k \in 1..Len(retval) : retval[k] = Rec(i))

\* C14 witness: of three URLs the second failed with a request failure
\* and the two others are returned UP.
C14_Witness ==
    /\ pc = "returned"
    /\ Len(urls) = 3
    /\ got[2].exc = "ConnectionError"
    /\ Rec(1).result = "UP"
    /\ Rec(3).result = "UP"
    /\ \E k \in 1..3 : retval[k] = Rec(1)
    /\ \E k \in 1..3 : retval[k] = Rec(3)

\* The place of unit i in the order of completion.
CompletedAt(i) == CHOOSE k \in 1..Len(completed) : completed[k] = i

\* C15 (as claimed): the returned list is in completion order: of two
\* records, the one placed first belongs to the unit that finished first.
C15_CompletionOrder ==
    (pc = "returned" /\ f = "closed") =>
        \A k, m \in 1..Len(yielded) :
            k < m => CompletedAt(yielded[k]) < CompletedAt(yielded[m])

\* C15 (amended): the records of the units that were already finished when
\* as_completed was entered come first, in any order; every record of a
\* unit that finished later is placed after them and after the record of
\* every unit that finished before it.
C15_CompletionOrderOfLate ==
    (pc = "returned" /\ f = "closed") =>
        /\ Len(retval) = Len(yielded)
        /\ \A k \in 1..Len(yielded) : retval[k] = Rec(yielded[k])
        /\ \A k, m \in 1..Len(yielded) :
              (k < m /\ yielded[m] \notin early) =>
                  CompletedAt(yielded[k]) < CompletedAt(yielded[m])
        /\ \A k, m \in 1..Len(yielded) :
              (k < m /\ yielded[m] \in early) => yielded[k] \in early

\* C15 witness: unit 1 was finished on entry, units 3 and 2 finished
\* later in that order, and the list is returned in the order 1, 3, 2.
C15_Witness ==
    /\ pc = "returned"
    /\ early = {1}
    /\ completed = <<1, 3, 2>>
    /\ yielded = <<1, 3, 2>>
    /\ Len(retval) = 3

InQueue(i) == \E k \in 1..Len(queue) : queue[k] = i

\* C13 (as claimed): under fair scheduling every queued unit is taken by a
\* worker, every running unit finishes, and once the URL list is read
\* check_endpoints eventually returns.
C13_Progress ==
    /\ \A i \in 1..MaxLines : InQueue(i) ~> (i \in running)
    /\ \A i \in 1..MaxLines : (i \in running) ~> (i \in Units /\ Finished(i))
    /\ (f = "closed") ~> (pc = "returned")

\* What holds of C13: every queued unit is taken, every running unit
\* finishes and the handler ends, by return or by exception.
C13_ProgressToEnd ==
    /\ \A i \in 1..MaxLines : InQueue(i) ~> (i \in running)
    /\ \A i \in 1..MaxLines : (i \in running) ~> (i \in Units /\ Finished(i))
    /\ <>Ended

\* The records of the units of each call, by unit.
Recs1 == [i \in Units |-> Rec(i)]
Recs2 == [i \in Units2 |-> call2.fut[i].outcome.value]

\* a and b hold the same elements, each as often.
SameBag(a, b) ==
    /\ Len(a) = Len(b)
    /\ \A x \in Elements(a) \cup Elements(b) : Count(a, x) = Count(b, x)

\* C19: of two calls served at the same time, each has at most MAX_WORKERS
\* checks in flight in its own pool, each reads its own URL list, and the
\* list each returns holds exactly the records of its own units, one per
\* URL it read: no record of the other call, none missing.
C19_IndependentCalls ==
    /\ Cardinality(running) <= MAX_WORKERS
    /\ Cardinality(call2.running) <= MAX_WORKERS
    /\ (pc = "returned" /\ f = "closed") =>
          /\ urls = read_urls(lines)
          /\ SameBag(retval, Recs1)
          /\ SameBag(UrlFields(retval), urls)
    /\ (call2.pc = "returned" /\ call2.f = "closed") =>
          /\ call2.urls = read_urls(call2.lines)
          /\ SameBag(call2.retval, Recs2)
          /\ SameBag(UrlFields(call2.retval), call2.urls)

\* C19 witness: two calls that read different lists have together
\* 2 * MAX_WORKERS checks in flight, more than MAX_WORKERS.
C19_Witness ==
    /\ urls /= call2.urls
    /\ Cardinality(running) = MAX_WORKERS
    /\ Cardinality(call2.running) = MAX_WORKERS
    /\ Cardinality(running) + Cardinality(call2.running) = 2 * MAX_WORKERS

\* Both calls have returned the results of the different lists they read.
C19_BothReturned ==
    /\ pc = "returned"
    /\ call2.pc = "returned"
    /\ Len(retval) = 2
    /\ Len(call2.retval) = 2
    /\ urls /= call2.urls

====
